---- MODULE Spec2Model ----
(***************************************************************************)
(* format-report.py: citation cleanup of a research report.                *)
(*                                                                         *)
(* A text is the sequence of its lines, as text.split("\n") yields them    *)
(* (the empty string is <<Blank>>; a text ending in "\n" ends in Blank).   *)
(* A line is a record                                                      *)
(*   kind  : what the program's patterns match on the line                 *)
(*     "blank"    the empty line                                           *)
(*     "text"     prose, no pattern but the citation markers matches       *)
(*     "ref"      ^\[(\d+)\]\s+(.+?)\s*—\s*(https?://\S+) matches          *)
(*     "refhead"  the line "## References"                                 *)
(*     "refheadx" "## References" followed by more text on the line        *)
(*     "refhead2" "##" , two blanks, "References"                          *)
(*     "head"     any other line that starts with "## "                    *)
(*   cites : the numbers of the \[(\d+)\] markers on the line, in order,   *)
(*           each a digit string; a "ref" line's first marker is its number*)
(*   title, url : the title and the URL of a "ref" line                    *)
(* A URL is [base |-> scheme, host, path and fragment, query |-> the names *)
(* of its query parameters in order].                                      *)
(***************************************************************************)
EXTENDS Integers, Sequences, FiniteSets, TLC

VARIABLES
  file,           \* the text of args.file on disk
  pc,             \* where main (or the scan of find_inline_citations) stands
  text,           \* main: the text read
  warnings,       \* main: validate(text)
  formatted,      \* main: renumber_citations(text)
  post_warnings,  \* main: validate(formatted)
  out,            \* what --stdout printed
  exit,           \* the exit status, -1 while running
  pos,            \* find_inline_citations: the index of the line the loop is at
  in_references,  \* find_inline_citations: the flag
  citations,      \* find_inline_citations: the set
  inline          \* find_inline_citations: the list returned

vars == <<file, pc, text, warnings, formatted, post_warnings, out, exit,
          pos, in_references, citations, inline>>

\* ------------------------------------------------------------------ bounds
MaxLines == 4

\* ------------------------------------------------------ numbers as strings
\* int(s) for a digit string s
RECURSIVE IntOf(_)
IntOf(s) == IF s = <<>> THEN 0 ELSE 10 * IntOf(SubSeq(s, 1, Len(s) - 1)) + s[Len(s)]

\* str(n) for n >= 0
RECURSIVE StrOf(_)
StrOf(n) == IF n < 10 THEN <<n>> ELSE StrOf(n \div 10) \o <<n % 10>>

\* sorted(S, key=int) for a set S of digit strings on which int is injective
RECURSIVE SortedByInt(_)
SortedByInt(S) ==
  IF S = {} THEN <<>>
  ELSE LET m == CHOOSE x \in S : \A y \in S : IntOf(x) <= IntOf(y)
       IN <<m>> \o SortedByInt(S \ {m})

\* --------------------------------------------------------------- the lines
NoUrl == [base |-> "", query |-> <<>>]
Blank == [kind |-> "blank", cites |-> <<>>, title |-> "", url |-> NoUrl]
RefHeading == [kind |-> "refhead", cites |-> <<>>, title |-> "", url |-> NoUrl]
TextLine(c) == [kind |-> "text", cites |-> c, title |-> "", url |-> NoUrl]
HeadLine(k, c) == [kind |-> k, cites |-> c, title |-> "", url |-> NoUrl]
RefLine(n, t, u) == [kind |-> "ref", cites |-> <<n>>, title |-> t, url |-> u]

\* re.match(r"^##\s+References", line)
MatchesRefHeading(line) == line.kind \in {"refhead", "refheadx", "refhead2"}
\* line.startswith("## ")
StartsWithH2(line) == line.kind \in {"head", "refhead", "refheadx", "refhead2"}
\* the line holds the substring "## References" (text.find)
HoldsRefLiteral(line) == line.kind \in {"refhead", "refheadx"}
\* the line, after a "\n", matches ## (?!References)
StartsOtherSection(line) == line.kind \in {"head", "refhead2"}

\* ---------------------------------------------------------- URL canonicalizer
TRACKING_PARAMS ==
  {"utm_source", "utm_medium", "utm_campaign", "utm_term", "utm_content",
   "fbclid", "gclid", "gclsrc", "dclid", "msclkid", "mc_cid", "mc_eid",
   "ref", "source", "s", "si"}

\* k.lower() on the parameter names of the model
Lower(k) == IF k = "UTM_Source" THEN "utm_source" ELSE k

RECURSIVE FilterQuery(_)
FilterQuery(q) ==
  IF q = <<>> THEN <<>>
  ELSE (IF Lower(Head(q)) \in TRACKING_PARAMS THEN <<>> ELSE <<Head(q)>>)
       \o FilterQuery(Tail(q))

strip_tracking_params(url) == [base |-> url.base, query |-> FilterQuery(url.query)]

\* ------------------------------------------------------------ the dict refs
\* A dict is the sequence of its items in insertion order; assigning to a key
\* already present replaces the value and keeps the key's place.
HasKey(d, k) == \E i \in 1..Len(d) : d[i].num = k
Get(d, k) == d[CHOOSE i \in 1..Len(d) : d[i].num = k]
Put(d, k, t, u) ==
  IF HasKey(d, k)
  THEN [i \in 1..Len(d) |-> IF d[i].num = k THEN [num |-> k, title |-> t, url |-> u] ELSE d[i]]
  ELSE Append(d, [num |-> k, title |-> t, url |-> u])
Keys(d) == {d[i].num : i \in 1..Len(d)}

\* -------------------------------------------------------- Reference Parser
RECURSIVE ParseFrom(_, _)
ParseFrom(lines, refs) ==
  IF lines = <<>> THEN refs
  ELSE LET l == Head(lines)
       IN ParseFrom(Tail(lines),
                    IF l.kind = "ref"
                    THEN Put(refs, l.cites[1], l.title, strip_tracking_params(l.url))
                    ELSE refs)

parse_references(t) == ParseFrom(t, <<>>)

\* --------------------------------------------------------- Citation Scanner
\* every \[(\d+)\] match of a sequence of lines, in reading order
RECURSIVE Markers(_)
Markers(lines) == IF lines = <<>> THEN <<>> ELSE Head(lines).cites \o Markers(Tail(lines))

Range(s) == {s[i] : i \in 1..Len(s)}

\* One pass of the loop body over `line`, from the flag and the set so far:
\* the flag and the set after it.
\* (mutant) the flag, once set, is never reset by another heading
ScanLineNeverLeaves(line, in_refs, cits) ==
  IF MatchesRefHeading(line)
  THEN [in_references |-> TRUE, citations |-> cits]
  ELSE [in_references |-> in_refs,
        citations |-> IF ~in_refs THEN cits \cup Range(line.cites) ELSE cits]

ScanLine(line, in_refs, cits) ==
  IF MatchesRefHeading(line)
  THEN [in_references |-> TRUE, citations |-> cits]
  ELSE LET flag == IF in_refs /\ StartsWithH2(line) THEN FALSE ELSE in_refs
       IN [in_references |-> flag,
           citations |-> IF ~flag THEN cits \cup Range(line.cites) ELSE cits]

RECURSIVE ScanFrom(_, _)
ScanFrom(lines, st) ==
  IF lines = <<>> THEN st
  ELSE ScanFrom(Tail(lines), ScanLine(Head(lines), st.in_references, st.citations))

find_inline_citations(t) ==
  SortedByInt(ScanFrom(t, [in_references |-> FALSE, citations |-> {}]).citations)

\* ------------------------------------------------------- Renumbering Engine
\* text.find("## References"): the index of the first line that holds it, 0 for -1
\* (in the documents of the model the literal stands only at the start of a line)
RECURSIVE FindFrom(_, _)
FindFrom(t, i) ==
  IF i > Len(t) THEN 0
  ELSE IF HoldsRefLiteral(t[i]) THEN i
  ELSE FindFrom(t, i + 1)

RefSectionStart(t) == FindFrom(t, 1)

\* text[:ref_section_start], or the text when there is no heading
BodyOf(t) ==
  LET k == RefSectionStart(t)
  IN IF k = 0 THEN t ELSE SubSeq(t, 1, k - 1) \o <<Blank>>

\* s.rstrip() of a text whose lines carry no trailing blanks of their own
RECURSIVE RStrip(_)
RStrip(t) ==
  IF Len(t) > 1 /\ t[Len(t)].kind = "blank" THEN RStrip(SubSeq(t, 1, Len(t) - 1))
  ELSE t

\* seen_order: the numbers of the body's markers that have a reference, each once,
\* in order of first occurrence
RECURSIVE SeenOrderFrom(_, _, _)
SeenOrderFrom(ms, refs, seen) ==
  IF ms = <<>> THEN seen
  ELSE SeenOrderFrom(Tail(ms), refs,
                     IF Head(ms) \notin Range(seen) /\ HasKey(refs, Head(ms))
                     THEN Append(seen, Head(ms))
                     ELSE seen)

SeenOrder(t, refs) == SeenOrderFrom(Markers(BodyOf(t)), refs, <<>>)

\* The walk over seen_order. The state: url_to_canonical and old_to_new as functions,
\* new_refs as a dict, next_num.
WalkInit == [url_to_canonical |-> <<>>, old_to_new |-> <<>>, new_refs |-> <<>>, next_num |-> 1]

InMap(m, k) == \E i \in 1..Len(m) : m[i].key = k
MapGet(m, k) == m[CHOOSE i \in 1..Len(m) : m[i].key = k].val

\* (mutant) every number gets a fresh new number: no deduplication by URL
WalkStepNoDedup(w, refs, old_num) ==
  IF ~HasKey(refs, old_num) THEN w
  ELSE LET r == Get(refs, old_num)
           new_num == StrOf(w.next_num)
       IN [url_to_canonical |-> Append(w.url_to_canonical, [key |-> r.url, val |-> new_num]),
           old_to_new |-> Append(w.old_to_new, [key |-> old_num, val |-> new_num]),
           new_refs |-> Put(w.new_refs, new_num, r.title, r.url),
           next_num |-> w.next_num + 1]

WalkStep(w, refs, old_num) ==
  IF ~HasKey(refs, old_num) THEN w
  ELSE LET r == Get(refs, old_num)
       IN IF InMap(w.url_to_canonical, r.url)
          THEN [w EXCEPT !.old_to_new =
                  Append(@, [key |-> old_num, val |-> MapGet(w.url_to_canonical, r.url)])]
          ELSE LET new_num == StrOf(w.next_num)
               IN [url_to_canonical |-> Append(w.url_to_canonical, [key |-> r.url, val |-> new_num]),
                   old_to_new |-> Append(w.old_to_new, [key |-> old_num, val |-> new_num]),
                   new_refs |-> Put(w.new_refs, new_num, r.title, r.url),
                   next_num |-> w.next_num + 1]

RECURSIVE WalkFrom(_, _, _)
WalkFrom(order, refs, w) ==
  IF order = <<>> THEN w
  ELSE WalkFrom(Tail(order), refs, WalkStep(w, refs, Head(order)))

Walk(t) ==
  LET refs == parse_references(t)
  IN WalkFrom(SeenOrder(t, refs), refs, WalkInit)

OldToNew(t) == Walk(t).old_to_new

\* replace_citation on one marker
replace_citation(num, old_to_new) ==
  IF InMap(old_to_new, num) THEN MapGet(old_to_new, num) ELSE num

\* re.sub(r"\[(\d+)\]", replace_citation, body): every marker of every line
RewriteLine(line, old_to_new) ==
  [line EXCEPT !.cites = [i \in 1..Len(line.cites) |-> replace_citation(line.cites[i], old_to_new)]]

NewBody(t, old_to_new) ==
  LET body == BodyOf(t)
  IN [i \in 1..Len(body) |-> RewriteLine(body[i], old_to_new)]

\* ref_lines: the heading, then one line per entry of new_refs, sorted by int(num)
RECURSIVE EntryLines(_, _)
EntryLines(order, new_refs) ==
  IF order = <<>> THEN <<>>
  ELSE LET e == Get(new_refs, Head(order))
       IN <<RefLine(e.num, e.title, e.url)>> \o EntryLines(Tail(order), new_refs)

RefLines(new_refs) ==
  <<RefHeading>> \o EntryLines(SortedByInt(Keys(new_refs)), new_refs)

\* re.search(r"\n## (?!References)", after_refs): the index in t of the first line
\* after the heading that starts another section, 0 for None
RECURSIVE NextSectionFrom(_, _)
NextSectionFrom(t, i) ==
  IF i > Len(t) THEN 0
  ELSE IF StartsOtherSection(t[i]) THEN i
  ELSE NextSectionFrom(t, i + 1)

\* tail without the "\n" it starts with: the lines from the next section on
TailLines(t) ==
  LET j == NextSectionFrom(t, RefSectionStart(t) + 1)
  IN IF j = 0 THEN <<>> ELSE SubSeq(t, j, Len(t))

\* new_body.rstrip() + "\n\n" + "\n".join(ref_lines) + "\n" + tail
\* (tail is "" or starts with "\n": either way a blank line follows the entries)
Reassemble(t) ==
  LET w == Walk(t)
      new_body == NewBody(t, w.old_to_new)
      ref_lines == RefLines(w.new_refs)
  IN IF RefSectionStart(t) # 0
     THEN RStrip(new_body) \o <<Blank>> \o ref_lines \o <<Blank>> \o TailLines(t)
     ELSE RStrip(new_body) \o <<Blank>> \o ref_lines \o <<Blank>>

\* (mutant) the guard `if not refs: return text` is missing
renumber_without_guard(t) == Reassemble(t)

renumber_citations(t) ==
  IF parse_references(t) = <<>> THEN t ELSE Reassemble(t)

\* ---------------------------------------------------------------- Validator
Orphan(n) == [type |-> "orphan", num |-> n, other |-> <<>>, url |-> NoUrl]
Unused(n) == [type |-> "unused", num |-> n, other |-> <<>>, url |-> NoUrl]
\* "Duplicate URL: [num] and [other] point to url"
Duplicate(n, o, u) == [type |-> "duplicate", num |-> n, other |-> o, url |-> u]

RECURSIVE MapSeq(_, _)
MapSeq(s, kind) ==
  IF s = <<>> THEN <<>>
  ELSE <<IF kind = "orphan" THEN Orphan(Head(s)) ELSE Unused(Head(s))>> \o MapSeq(Tail(s), kind)

\* (mutant) urls[url] is overwritten with every number met, so a third reference is
\* reported against the second
RECURSIVE DuplicatesAgainstLast(_, _)
DuplicatesAgainstLast(items, urls) ==
  IF items = <<>> THEN <<>>
  ELSE LET it == Head(items)
       IN IF InMap(urls, it.url)
          THEN <<Duplicate(it.num, MapGet(urls, it.url), it.url)>>
               \o DuplicatesAgainstLast(Tail(items),
                                        [i \in 1..Len(urls) |->
                                           IF urls[i].key = it.url
                                           THEN [key |-> it.url, val |-> it.num] ELSE urls[i]])
          ELSE DuplicatesAgainstLast(Tail(items), Append(urls, [key |-> it.url, val |-> it.num]))

\* the loop over refs.items(): urls maps a URL to the first number seen with it
RECURSIVE DuplicatesFrom(_, _)
DuplicatesFrom(items, urls) ==
  IF items = <<>> THEN <<>>
  ELSE LET it == Head(items)
       IN IF InMap(urls, it.url)
          THEN <<Duplicate(it.num, MapGet(urls, it.url), it.url)>> \o DuplicatesFrom(Tail(items), urls)
          ELSE DuplicatesFrom(Tail(items), Append(urls, [key |-> it.url, val |-> it.num]))

validate(t) ==
  LET refs == parse_references(t)
      inline_nums == Range(find_inline_citations(t))
      ref_nums == Keys(refs)
      orphan_citations == inline_nums \ ref_nums
      unused_refs == ref_nums \ inline_nums
  IN MapSeq(SortedByInt(orphan_citations), "orphan")
     \o MapSeq(SortedByInt(unused_refs), "unused")
     \o DuplicatesFrom(refs, <<>>)

\* ------------------------------------------------------------ the documents
One == <<1>>
Two == <<2>>
Ten == <<1, 0>>

UA == [base |-> "https://a.com/x", query |-> <<>>]
UAT == [base |-> "https://a.com/x", query |-> <<"UTM_Source">>]
UAI == [base |-> "https://a.com/x", query |-> <<"id">>]

\* the lines a document of the model is made of
TextLines == {TextLine(<<Two>>), TextLine(<<Ten, One>>), TextLine(<<Two, One, Ten>>)}
EntryLinesIn == {RefLine(One, "A", UA), RefLine(Two, "A2", UAT), RefLine(Ten, "C", UA),
                 RefLine(Ten, "B", UAI)}
HeadLines == {RefHeading, HeadLine("refheadx", <<>>), HeadLine("refhead2", <<>>),
              HeadLine("head", <<One>>)}
Lines == {Blank} \cup TextLines \cup EntryLinesIn \cup HeadLines

\* --------------------------------------------------------------------- main
\* the script is started on a file that holds a document of 1 to MaxLines lines
Init ==
  /\ \E n \in 1..MaxLines : file \in [1..n -> Lines]
  /\ pc = "start"
  /\ text = <<>>
  /\ warnings = <<>>
  /\ formatted = <<>>
  /\ post_warnings = <<>>
  /\ out = <<>>
  /\ exit = -1
  /\ pos = 0
  /\ in_references = FALSE
  /\ citations = {}
  /\ inline = <<>>

scanvars == <<pos, in_references, citations, inline>>

\* text = args.file.read_text()
Start ==
  /\ pc = "start"
  /\ text' = file
  /\ pc' = "validate"
  /\ UNCHANGED <<file, warnings, formatted, post_warnings, out, exit, scanvars>>

\* warnings = validate(text); with --check (the input `check`) the script exits here
Validate ==
  /\ pc = "validate"
  /\ warnings' = validate(text)
  /\ \E check \in BOOLEAN :
       IF check
       THEN /\ pc' = "exit"
            /\ exit' = IF warnings' # <<>> THEN 1 ELSE 0
       ELSE /\ pc' = "format"
            /\ exit' = exit
  /\ UNCHANGED <<file, text, formatted, post_warnings, out, scanvars>>

\* formatted = renumber_citations(text), printed (--stdout, the input `stdout`) or
\* written back to the file
Format ==
  /\ pc = "format"
  /\ formatted' = renumber_citations(text)
  /\ \E stdout \in BOOLEAN :
       IF stdout
       THEN out' = formatted' /\ file' = file
       ELSE file' = formatted' /\ out' = out
  /\ pc' = "revalidate"
  /\ UNCHANGED <<text, warnings, post_warnings, exit, scanvars>>

\* post_warnings = validate(formatted)
Revalidate ==
  /\ pc = "revalidate"
  /\ post_warnings' = validate(formatted)
  /\ pc' = "exit"
  /\ exit' = 0
  /\ UNCHANGED <<file, text, warnings, formatted, out, scanvars>>

Next == Start \/ Validate \/ Format \/ Revalidate

Spec == Init /\ [][Next]_vars

\* ------------------------------------------ find_inline_citations, line by line
mainvars == <<file, warnings, formatted, post_warnings, out, exit>>

\* the call find_inline_citations(text) on the text of a document
ScanInit ==
  /\ \E n \in 1..MaxLines : file \in [1..n -> Lines]
  /\ text = file
  /\ pc = "scan"
  /\ pos = 1
  /\ in_references = FALSE
  /\ citations = {}
  /\ inline = <<>>
  /\ warnings = <<>>
  /\ formatted = <<>>
  /\ post_warnings = <<>>
  /\ out = <<>>
  /\ exit = -1

AtLine == pc = "scan" /\ pos <= Len(text)

Advance ==
  /\ LET st == ScanLine(text[pos], in_references, citations)
     IN in_references' = st.in_references /\ citations' = st.citations
  /\ pos' = pos + 1
  /\ UNCHANGED <<pc, text, inline, mainvars>>

\* the line is a References heading: in_references = True; continue
ScanRefHeading == AtLine /\ MatchesRefHeading(text[pos]) /\ Advance

\* in the references, another "## " line: in_references = False, and the line is scanned
ScanLeave ==
  AtLine /\ ~MatchesRefHeading(text[pos]) /\ in_references /\ StartsWithH2(text[pos]) /\ Advance

\* in the references, any other line: nothing is collected
ScanSkip ==
  AtLine /\ ~MatchesRefHeading(text[pos]) /\ in_references /\ ~StartsWithH2(text[pos]) /\ Advance

\* outside the references: the line's markers are collected
ScanCollect == AtLine /\ ~MatchesRefHeading(text[pos]) /\ ~in_references /\ Advance

\* return sorted(citations, key=int)
ScanReturn ==
  /\ pc = "scan"
  /\ pos > Len(text)
  /\ inline' = SortedByInt(citations)
  /\ pc' = "scanned"
  /\ UNCHANGED <<text, pos, in_references, citations, mainvars>>

ScanNext == ScanRefHeading \/ ScanLeave \/ ScanSkip \/ ScanCollect \/ ScanReturn

SpecScan == ScanInit /\ [][ScanNext]_vars

\* ------------------------------------------------------------------ the claims
\* Format has run: formatted = renumber_citations(text)
Formatted == pc = "revalidate"
\* Revalidate has run too: post_warnings = validate(formatted)
Revalidated == pc = "exit" /\ formatted # <<>>

HasType(ws, type) == \E i \in 1..Len(ws) : ws[i].type = type

\* The first-appearance ranking of a text, stated without the walk:
\*   cited  the numbers cited in the Body that have a reference entry
\*   first  the index, among the markers of the Body, at which each first occurs
\*   url    the canonical URL of each
\*   rank   for each, how many distinct canonical URLs were first met up to the first
\*          marker that carries its URL
Ranking(t) ==
  LET refs == parse_references(t)
      bm == Markers(BodyOf(t))
      cited == {n \in Range(bm) : HasKey(refs, n)}
      first == [n \in cited |->
                  CHOOSE i \in 1..Len(bm) : bm[i] = n /\ \A j \in 1..(i - 1) : bm[j] # n]
      url == [n \in cited |-> Get(refs, n).url]
      firstOfUrl == [n \in cited |->
                       CHOOSE i \in {first[k] : k \in {c \in cited : url[c] = url[n]}} :
                         \A k \in {c \in cited : url[c] = url[n]} : i <= first[k]]
  IN [cited |-> cited, first |-> first, url |-> url,
      rank |-> [n \in cited |->
                  Cardinality({url[k] : k \in {c \in cited : first[c] <= firstOfUrl[n]}})]]

BodyMarkers == Markers(BodyOf(text))
Refs == parse_references(text)

\* C1: renumber_citations is idempotent on every document with at least one parsed
\* reference: renumbering the renumbered text gives it back.
C1_Idempotent ==
  Formatted /\ Refs # <<>> => renumber_citations(formatted) = formatted

\* C2: the old-to-new map has exactly the numbers cited in the Body that have a
\* reference entry as its keys, each once, and maps each to the first-appearance rank
\* of its canonical URL (so the first maps to 1, equal URLs share a number, and each
\* URL first seen gets the next integer).
C2_MapIsFirstAppearanceRank ==
  Formatted /\ Refs # <<>> =>
    LET m == OldToNew(text)
        r == Ranking(text)
    IN /\ {m[i].key : i \in 1..Len(m)} = r.cited
       /\ \A i, j \in 1..Len(m) : m[i].key = m[j].key => i = j
       /\ \A i \in 1..Len(m) : m[i].val = StrOf(r.rank[m[i].key])
       /\ \A i, j \in 1..Len(m) : r.url[m[i].key] = r.url[m[j].key] => m[i].val = m[j].val
       /\ \A n \in r.cited : (\A c \in r.cited : r.first[n] <= r.first[c]) => MapGet(m, n) = StrOf(1)

\* three cited numbers, two of them with the same canonical URL under different raw
\* URLs, the third with another
C2_Witness ==
  /\ Formatted
  /\ LET r == Ranking(text)
     IN /\ Cardinality(r.cited) = 3
        /\ Cardinality({r.url[n] : n \in r.cited}) = 2
        /\ \E i, j \in 1..Len(text) :
             /\ text[i].kind = "ref" /\ text[j].kind = "ref"
             /\ text[i].url # text[j].url
             /\ strip_tracking_params(text[i].url) = strip_tracking_params(text[j].url)
             /\ {text[i].cites[1], text[j].cites[1]} \subseteq r.cited
             /\ text[i].cites[1] # text[j].cites[1]

\* C3: the reference numbers the Reference Parser reads from the renumbered text are
\* exactly 1..K for some K >= 0.
C3_Sequential ==
  Formatted =>
    \E K \in 0..Len(formatted) :
      Keys(parse_references(formatted)) = {StrOf(i) : i \in 1..K}

\* the markers of the Body of the renumbered text: those of BodyMarkers, place by place
OutBodyMarkers == Markers(BodyOf(formatted))
Orphans == Range(BodyMarkers) \ Keys(Refs)

\* C4: every [n] marker of a number n cited in the Body without a reference entry is
\* left as it is, and validate reports n as an orphan on the input and on the output.
C4_OrphanPassthrough ==
  Revalidated =>
    \A n \in Orphans :
      /\ \A i \in 1..Len(BodyMarkers) : BodyMarkers[i] = n => OutBodyMarkers[i] = n
      /\ Orphan(n) \in Range(warnings)
      /\ Orphan(n) \in Range(post_warnings)

\* C5: when the document has a parsed reference and validate reports no orphan on it,
\* the post-format validation reports no orphan and no duplicate URL.
C5_PostFormatClean ==
  Revalidated /\ Refs # <<>> /\ ~HasType(warnings, "orphan") =>
    ~HasType(post_warnings, "orphan") /\ ~HasType(post_warnings, "duplicate")

\* Validate has just run: warnings = validate(text)
Validated == pc = "format" \/ (pc = "exit" /\ formatted = <<>>)

\* the indexes of the parsed references `refs` whose URL an earlier one has, the index
\* of the first reference with a URL, and the duplicate-URL messages among `ws`
DupIdx(refs) == {i \in 1..Len(refs) : \E j \in 1..(i - 1) : refs[j].url = refs[i].url}
FirstWithUrl(refs, u) ==
  CHOOSE j \in 1..Len(refs) : refs[j].url = u /\ \A k \in 1..(j - 1) : refs[k].url # u
IsDuplicate(w) == w.type = "duplicate"

\* C6 as stated: one duplicate-URL message per canonical URL under several numbers,
\* naming the first two numbers with it, the earlier one (in parse order) first.
C6_OneMessageEarlierFirst ==
  Validated =>
    LET refs == Refs
        dups == DupIdx(refs)
        msgs == SelectSeq(warnings, IsDuplicate)
        shared == {refs[i].url : i \in dups}
    IN /\ \A k \in 1..Len(msgs) : msgs[k].url \in shared
       /\ \A u \in shared :
            LET a == FirstWithUrl(refs, u)
                b == CHOOSE i \in dups :
                       refs[i].url = u /\ \A k \in dups : refs[k].url = u => i <= k
            IN /\ Cardinality({k \in 1..Len(msgs) : msgs[k].url = u}) = 1
               /\ \A k \in 1..Len(msgs) :
                    msgs[k].url = u =>
                      msgs[k].num = refs[a].num /\ msgs[k].other = refs[b].num

\* C6, amended: one duplicate-URL message per reference whose canonical URL an earlier
\* reference (in parse order) has, in parse order, naming that later number first, then
\* the first number met with the URL, and the URL; the duplicate-URL messages come
\* last. For [1] and [2] with one URL: exactly one message, naming 2 and then 1.
C6_OneMessagePerLaterReference ==
  Validated =>
    LET refs == Refs
        dups == DupIdx(refs)
        msgs == SelectSeq(warnings, IsDuplicate)
    IN /\ Len(msgs) = Cardinality(dups)
       /\ \A i \in dups :
            msgs[Cardinality({j \in dups : j <= i})]
              = Duplicate(refs[i].num, refs[FirstWithUrl(refs, refs[i].url)].num, refs[i].url)
       /\ \A k \in 1..Len(msgs) : warnings[Len(warnings) - Len(msgs) + k] = msgs[k]
       /\ (Len(refs) = 2 /\ refs[1].url = refs[2].url =>
             msgs = <<Duplicate(refs[2].num, refs[1].num, refs[1].url)>>)

\* one URL under three numbers: two messages, both against the first number
C6_Witness ==
  /\ Validated
  /\ Len(Refs) = 3
  /\ Refs[1].url = Refs[2].url /\ Refs[2].url = Refs[3].url
  /\ Len(SelectSeq(warnings, IsDuplicate)) = 2

\* C7 as stated: a document with no References heading comes back unchanged.
NoReferencesHeading == \A i \in 1..Len(text) : ~MatchesRefHeading(text[i])
HasEntryLine == \E i \in 1..Len(text) : text[i].kind = "ref"
OutHeadingAt == RefSectionStart(formatted)
RECURSIVE EntriesFrom(_, _)
EntriesFrom(t, i) ==
  IF i > Len(t) \/ t[i].kind # "ref" THEN <<>> ELSE <<t[i]>> \o EntriesFrom(t, i + 1)
OutSection == EntriesFrom(formatted, OutHeadingAt + 1)
SameEntry(a, b) ==
  /\ a.kind = "ref" /\ b.kind = "ref"
  /\ a.cites[1] = b.cites[1]
  /\ a.title = b.title
  /\ strip_tracking_params(a.url) = strip_tracking_params(b.url)

\* the rebuilt section: one entry per canonical URL cited in the Body, numbered 1..K in
\* order, with the URL of that rank and the title of the first cited number that has
\* it; every entry's number is cited in the rewritten Body
SectionIsTheWalk ==
  LET r == Ranking(text)
      section == OutSection
      firstOfRank == [k \in 1..Len(section) |->
                        CHOOSE n \in r.cited :
                          r.rank[n] = k /\ \A c \in r.cited : r.rank[c] = k => r.first[n] <= r.first[c]]
  IN /\ OutHeadingAt # 0
     /\ formatted[OutHeadingAt] = RefHeading
     /\ Len(section) = Cardinality({r.url[n] : n \in r.cited})
     /\ \A k \in 1..Len(section) :
          /\ section[k].cites = <<StrOf(k)>>
          /\ section[k].url = r.url[firstOfRank[k]]
          /\ section[k].title = Get(Refs, firstOfRank[k]).title
          /\ StrOf(k) \in Range(OutBodyMarkers)

\* the Tail: what follows the reference section of a text that has the heading
TailOfText == IF RefSectionStart(text) = 0 THEN <<>> ELSE TailLines(text)

\* C8 as stated: with at least one parsed reference, no reference entry whose number
\* is never cited in the Body is anywhere in the renumbered text, and the rebuilt
\* section is the walk's.
C8_UncitedAbsentFromOutput ==
  Formatted /\ Refs # <<>> =>
    /\ \A i \in 1..Len(text) :
         text[i].kind = "ref" /\ text[i].cites[1] \notin Range(BodyMarkers) =>
           \A j \in 1..Len(formatted) : ~SameEntry(formatted[j], text[i])
    /\ SectionIsTheWalk

\* Is line i one the Citation Scanner collects from, by a run of the scan over the
\* lines before it
CountedByScanner(t, i) ==
  LET before == ScanFrom(SubSeq(t, 1, i - 1), [in_references |-> FALSE, citations |-> {}])
  IN /\ ~MatchesRefHeading(t[i])
     /\ ~ScanLine(t[i], before.in_references, {}).in_references

\* where line i of the text is in the renumbered text: a line of the Body at its own
\* index, a line of the Tail as far from the end as it was
TailStartsAt == Len(text) - Len(TailOfText) + 1
InBodyPart(i) == RefSectionStart(text) = 0 \/ i < RefSectionStart(text)
OutIndex(i) == IF InBodyPart(i) THEN i ELSE Len(formatted) - Len(text) + i

\* C10: every marker the Citation Scanner counts, whose number has a parsed reference
\* with canonical URL u, carries in the renumbered text a number whose parsed
\* reference there has canonical URL u.
C10_TargetsPreserved ==
  Formatted /\ Refs # <<>> =>
    \A i \in 1..Len(text) :
      CountedByScanner(text, i) /\ (InBodyPart(i) \/ i >= TailStartsAt) =>
        \A p \in 1..Len(text[i].cites) :
          HasKey(Refs, text[i].cites[p]) =>
            LET outRefs == parse_references(formatted)
                n2 == formatted[OutIndex(i)].cites[p]
            IN HasKey(outRefs, n2) /\ Get(outRefs, n2).url = Get(Refs, text[i].cites[p]).url

\* ------------------------------------------- the claims of the scan (SpecScan)
\* the last "## " line before line i of the text, 0 when there is none
LastHeadingBefore(i) ==
  IF \E j \in 1..(i - 1) : StartsWithH2(text[j])
  THEN CHOOSE j \in 1..(i - 1) :
         StartsWithH2(text[j]) /\ \A k \in (j + 1)..(i - 1) : ~StartsWithH2(text[k])
  ELSE 0

\* the heading's text is exactly "References" / the line starts as a References heading
ExactlyReferences(line) == line.kind \in {"refhead", "refhead2"}
StartsAsReferences(line) == line.kind \in {"refhead", "refhead2", "refheadx"}

\* the state before line i, by the two readings: InReferences when the last heading
\* before it is a References heading
InReferencesExact(i) ==
  LastHeadingBefore(i) # 0 /\ ExactlyReferences(text[LastHeadingBefore(i)])
InReferencesPrefix(i) ==
  LastHeadingBefore(i) # 0 /\ StartsAsReferences(text[LastHeadingBefore(i)])

\* the numbers on the lines before line i that were scanned in InBody
CollectedExact(i) ==
  UNION {Range(text[j].cites) :
           j \in {k \in 1..(i - 1) : ~ExactlyReferences(text[k]) /\ ~InReferencesExact(k + 1)}}
CollectedPrefix(i) ==
  UNION {Range(text[j].cites) :
           j \in {k \in 1..(i - 1) : ~StartsAsReferences(text[k]) /\ ~InReferencesPrefix(k + 1)}}

Ascending(s) == \A i, j \in 1..Len(s) : i < j => IntOf(s[i]) <= IntOf(s[j]) /\ s[i] # s[j]

====
